---- MODULE Spec2Model ----
(***************************************************************************)
(* A model of dataset_utils.py: the raw loader, the description selector,  *)
(* the input/output formatter, the split formatter and the encoder.        *)
(*                                                                         *)
(* A Python string is a sequence of atoms.  An atom is either one          *)
(* whitespace character (" " or "\n") or a block of text that begins and   *)
(* ends with a non-whitespace character, so that str.strip() acts on the   *)
(* sequence exactly as it acts on the characters.                          *)
(***************************************************************************)
EXTENDS Integers, Sequences, FiniteSets, TLC

VARIABLES
    fargs,      \* formatter: the arguments of format_input / format_output
    fout,       \* formatter: what the last call of the two returned
    fbefore,    \* formatter: what the call before a field was padded returned
    fpadded,    \* formatter: the field whitespace was added to, or "none"
    build,      \* the order the build's sort leaves rows of equal key in
    cands,      \* selector: the candidate rows of one problem
    dlast,      \* selector: the last call of process_desc and its outcome
    dprev,      \* selector: the call before it
    tokenizer,  \* encoder: the tokenizer's pad id and its tokens for each string
    enc,        \* encoder: what get_transformer_encoding returned
    files,      \* loader: the content of the four source files
    loaded,     \* loader: what load_and_filter_raw_data returned
    io          \* split formatter: the last call of format_io_data and its outcome

fvars == <<fargs, fout, fbefore, fpadded>>
dvars == <<cands, dlast, dprev>>
evars == <<tokenizer, enc>>
pvars == <<files, loaded, io>>

vars == <<fargs, fout, fbefore, fpadded, build, cands, dlast, dprev, tokenizer, enc,
          files, loaded, io>>

(***************************************************************************)
(* Bounds of the model.                                                    *)
(***************************************************************************)
MaxChoices == 2
MaxPad == 1
MaxCands == 3
MaxTokLen == 2

(***************************************************************************)
(* Python values.                                                          *)
(***************************************************************************)
PyNone == [type |-> "NoneType"]
PyStr(s) == [type |-> "str", val |-> s]
PyList(l) == [type |-> "list", val |-> l]

Return(v) == [status |-> "returned", value |-> v]
Raise(e) == [status |-> "raised", error |-> e]
Idle == [status |-> "idle"]

\* the components that a specification does not exercise stay idle
FormatterIdle ==
    /\ fargs = Idle
    /\ fout = Idle
    /\ fbefore = Idle
    /\ fpadded = "none"

SelectorIdle ==
    /\ cands = <<>>
    /\ dlast = Idle
    /\ dprev = Idle

EncoderIdle ==
    /\ tokenizer = Idle
    /\ enc = Idle

PipelineIdle ==
    /\ files = Idle
    /\ loaded = Idle
    /\ io = Idle

InputFormatOpts == 1..4
TargetFormatOpts == 1..3
DescSelModes == 1..3

SeqsUpTo(S, n) == UNION {[1..k -> S] : k \in 0..n}

IsSpace(c) == c \in {" ", "\n"}

RECURSIVE lstrip(_)
lstrip(s) ==
    IF s # <<>> /\ IsSpace(Head(s)) THEN lstrip(Tail(s)) ELSE s

RECURSIVE rstrip(_)
rstrip(s) ==
    IF s # <<>> /\ IsSpace(s[Len(s)]) THEN rstrip(SubSeq(s, 1, Len(s) - 1)) ELSE s

\* str.strip()
strip(s) == rstrip(lstrip(s))

\* sep.join(parts)
RECURSIVE join(_, _)
join(sep, parts) ==
    IF parts = <<>> THEN <<>>
    ELSE IF Len(parts) = 1 THEN parts[1]
    ELSE parts[1] \o sep \o join(sep, Tail(parts))

Digit(d) == <<"0", "1", "2", "3", "4", "5", "6", "7", "8", "9">>[d + 1]

\* the decimal rendering of a natural number in an f-string
RECURSIVE Decimal(_)
Decimal(n) ==
    IF n < 10 THEN <<Digit(n)>> ELSE Decimal(n \div 10) \o <<Digit(n % 10)>>

\* f'{v}' of a str or of None
Interpolate(v) == IF v.type = "str" THEN v.val ELSE <<"None">>

\* the "Texts in image" part of format_input, lines 49-51 and 61-63
ExtractedTextPart(ext_text) ==
    IF ext_text.type = "list" /\ Len(ext_text.val) > 0
    THEN LET joined == join(<<",", " ">>,
                            [i \in 1..Len(ext_text.val) |-> strip(ext_text.val[i])])
         IN <<"\n", "Texts in image:", " ">> \o strip(joined) \o <<".">>
    ELSE <<>>

\* a mutant of ContextPart: the hint is interpolated as it is
ContextPartUnstripped(hint) == <<"Context:", " ">> \o hint \o <<"\n">>

\* f'Context: {hint.strip()}\n', line 46
ContextPart(hint) == <<"Context:", " ">> \o strip(hint) \o <<"\n">>

Trailer(subject, topic, category) ==
    <<"\n", "Subject:", " ">> \o subject \o <<".", " ", "Topic:", " ">> \o topic
        \o <<".", " ", "Category:", " ">> \o category \o <<".">>

format_input(desc, ext_text, hint, lecture, subject, topic, category, input_format_opt) ==
    LET template == <<"Generate a question based on the following information.", "\n">>
    IN  IF input_format_opt = 1
        THEN Return(strip(template \o ContextPart(hint)
                          \o <<"Image:", " ">> \o Interpolate(desc) \o <<".">>
                          \o ExtractedTextPart(ext_text)
                          \o Trailer(subject, topic, category)))
        ELSE IF input_format_opt = 2
        THEN Return(strip(template \o strip(hint) \o Trailer(subject, topic, category)))
        ELSE IF input_format_opt = 3
        THEN Return(strip(template \o Interpolate(desc) \o <<".">>
                          \o ExtractedTextPart(ext_text)
                          \o Trailer(subject, topic, category)))
        ELSE Raise("Exception")

\* a mutant of RenderChoices: the choices are numbered from 0
RenderChoicesFromZero(choices) ==
    strip(join(<<"\n">>,
               [idx \in 1..Len(choices) |->
                    <<"(">> \o Decimal(idx - 1) \o <<")", " ">> \o strip(choices[idx])]))

\* the rendering of the choices, line 80
RenderChoices(choices) ==
    strip(join(<<"\n">>,
               [idx \in 1..Len(choices) |->
                    <<"(">> \o Decimal(idx) \o <<")", " ">> \o strip(choices[idx])]))

\* a mutant of format_output: an unsupported target_format_opt raises
format_output_raising(question, choices, target_format_opt) ==
    IF target_format_opt = 1
    THEN Return(PyStr(question))
    ELSE IF target_format_opt = 2
    THEN Return(PyStr(<<"Question:", "\n">> \o question
                      \o <<"\n", "\n", "Choices:", "\n">> \o RenderChoices(choices)))
    ELSE Raise("Exception")

format_output(question, choices, target_format_opt) ==
    IF target_format_opt = 1
    THEN Return(PyStr(question))
    ELSE IF target_format_opt = 2
    THEN Return(PyStr(<<"Question:", "\n">> \o question
                      \o <<"\n", "\n", "Choices:", "\n">> \o RenderChoices(choices)))
    ELSE Return(PyNone)

(***************************************************************************)
(* The description selector.  A table of candidates is a sequence of rows  *)
(* [pid, generated_descriptions, ppls].  DataFrame.sort_values sorts with  *)
(* kind = 'quicksort', which is not stable: rows of equal ppls come out in *)
(* an order that the build fixes and the original order does not.  build   *)
(* ranks the positions of a table; the sort orders rows of equal ppls by   *)
(* that rank (the identity is the stable sort).                            *)
(***************************************************************************)
RankOrders(n) == {f \in [1..n -> 1..n] : \A i, j \in 1..n : f[i] = f[j] => i = j}

\* the largest table the model sorts
MaxRows == IF MaxCands > 3 THEN MaxCands ELSE 3

Builds == RankOrders(MaxRows)
StableBuild == [i \in 1..MaxRows |-> i]

\* row i is placed before row j
SortsBefore(rows, i, j) ==
    \/ rows[i].ppls < rows[j].ppls
    \/ rows[i].ppls = rows[j].ppls /\ build[i] < build[j]

\* a mutant of sort_values: descending order
sort_values_descending(rows) ==
    [k \in 1..Len(rows) |->
        rows[CHOOSE i \in 1..Len(rows) :
                Cardinality({j \in 1..Len(rows) : SortsBefore(rows, i, j)}) = k - 1]]

\* desc.sort_values(by=['ppls']), line 92
sort_values(rows) ==
    [k \in 1..Len(rows) |->
        rows[CHOOSE i \in 1..Len(rows) :
                Cardinality({j \in 1..Len(rows) : SortsBefore(rows, j, i)}) = k - 1]]

\* the outcomes of process_desc(desc, desc_sel_mode): random.choice draws any
\* element, and both random.choice and [0] raise IndexError on an empty list
process_desc(desc, desc_sel_mode) ==
    IF desc_sel_mode = 1
    THEN IF desc = <<>> THEN {Raise("IndexError")}
         ELSE {Return(desc[i].generated_descriptions) : i \in 1..Len(desc)}
    ELSE IF desc_sel_mode = 2
    THEN IF desc = <<>> THEN {Raise("IndexError")}
         ELSE {Return(sort_values(desc)[1].generated_descriptions)}
    ELSE {Raise("Exception")}

DescTexts == {<<"d1">>, <<"d2">>}
PplValues == {1, 2}
CandidateRows == [pid : {1}, generated_descriptions : DescTexts, ppls : PplValues]

SelectorInit ==
    /\ cands \in SeqsUpTo(CandidateRows, MaxCands)
    /\ build \in Builds
    /\ dlast = Idle
    /\ dprev = Idle
    /\ FormatterIdle
    /\ EncoderIdle
    /\ PipelineIdle

ProcessDesc ==
    /\ \E mode \in DescSelModes :
        \E r \in process_desc(cands, mode) :
            dlast' = [status |-> "called", desc_sel_mode |-> mode, result |-> r]
    /\ dprev' = dlast
    /\ UNCHANGED <<cands, build, fvars, evars, pvars>>

SelectorNext == ProcessDesc

SpecSelector == SelectorInit /\ [][SelectorNext]_vars

(***************************************************************************)
(* C5: the selector's properties.                                          *)
(***************************************************************************)
Mode2Returned(c) ==
    c.status = "called" /\ c.desc_sel_mode = 2 /\ c.result.status = "returned"

LowestPpl(i) == \A j \in 1..Len(cands) : cands[i].ppls <= cands[j].ppls

\* the first candidate, in the original order, of the lowest perplexity
FirstLowest == CHOOSE i \in 1..Len(cands) :
                  LowestPpl(i) /\ \A j \in 1..(i - 1) : ~LowestPpl(j)

Mode2Deterministic ==
    (Mode2Returned(dlast) /\ Mode2Returned(dprev)) => dlast.result = dprev.result

Mode2ReturnsLowest ==
    Mode2Returned(dlast) =>
        \E i \in 1..Len(cands) :
            LowestPpl(i) /\ dlast.result.value = cands[i].generated_descriptions

\* C5 as stated: mode 2 on a non-empty candidate set is deterministic, returns
\* a description of lowest perplexity, and among several of the lowest
\* perplexity returns the first in the original order.
C5_TiesByOriginalOrder ==
    /\ (dlast.status = "called" /\ dlast.desc_sel_mode = 2 /\ cands # <<>>)
          => dlast.result.status = "returned"
    /\ Mode2Deterministic
    /\ Mode2ReturnsLowest
    /\ Mode2Returned(dlast) =>
          dlast.result.value = cands[FirstLowest].generated_descriptions

\* C5 amended: mode 2 on a non-empty candidate set is deterministic and
\* returns the description of a candidate whose perplexity is less than or
\* equal to every other candidate's; which of several candidates of the
\* lowest perplexity is returned is not decided by the original order.
C5_LowestPerplexity ==
    /\ (dlast.status = "called" /\ dlast.desc_sel_mode = 2 /\ cands # <<>>)
          => dlast.result.status = "returned"
    /\ Mode2Deterministic
    /\ Mode2ReturnsLowest

\* C5 witness: mode 2 was called twice on a set in which two candidates of
\* different text share the lowest perplexity and a third has a higher one.
C5_Witness ==
    /\ Mode2Returned(dlast) /\ Mode2Returned(dprev)
    /\ \E i, j, k \in 1..Len(cands) :
        /\ i # j /\ LowestPpl(i) /\ LowestPpl(j) /\ ~LowestPpl(k)
        /\ cands[i].generated_descriptions # cands[j].generated_descriptions

(***************************************************************************)
(* The raw loader.  problems is a function from pids to records, a split   *)
(* a sequence of pids, the description table a sequence of rows, and the   *)
(* extracted texts of a split a function from pids to lists of strings.    *)
(***************************************************************************)
Splits == {"train", "val", "test"}
Pids == {"1", "2"}
JsonNull == "null"

\* int(pid)
int(pid) == CASE pid = "1" -> 1 [] pid = "2" -> 2

Restrict(f, S) == [k \in DOMAIN f \cap S |-> f[k]]

\* a mutant of Keep: a problem with an image is kept whatever its hint
KeepWithImage(v) == v.image # JsonNull

\* v['image'] is not None and len(v['hint']) > 0, line 19
Keep(v) == v.image # JsonNull /\ Len(v.hint) > 0

\* a mutant of FilterIds: the split is returned as it was loaded
FilterIdsKeepAll(ids, problems) == ids

\* [pid for pid in ids if pid in problems], lines 23-25
FilterIds(ids, problems) ==
    LET InProblems(pid) == pid \in DOMAIN problems
    IN  SelectSeq(ids, InProblems)

load_and_filter_raw_data ==
    LET problems == Restrict(files.problems,
                             {k \in DOMAIN files.problems : Keep(files.problems[k])})
        pids == DOMAIN problems
        HasProblem(row) == row.pid \in {int(pid) : pid \in pids}
    IN  [status |-> "returned",
         problems |-> problems,
         pid_splits |-> [s \in Splits |-> FilterIds(files.pid_splits[s], problems)],
         descriptions |-> SelectSeq(files.descriptions, HasProblem),
         extracted_texts |-> [s \in Splits |-> Restrict(files.extracted_texts[s], pids)]]

(***************************************************************************)
(* The split formatter.  An operator that can raise returns Raise(e); one  *)
(* that draws at random returns the set of its outcomes.                   *)
(***************************************************************************)
\* one iteration of the loop of format_io_data, lines 110-129
FormatRecord(problems, descriptions, extracted_texts, split, pid, desc_sel_mode, input_format_opt, target_format_opt) ==
    LET OfPid(row) == row.pid = int(pid)
        descriptions_pid == SelectSeq(descriptions, OfPid)
        Format(description, extracted_text) ==
            IF pid \notin DOMAIN problems THEN Raise("KeyError")
            ELSE LET p == problems[pid]
                     inp == format_input(description, extracted_text, p.hint, p.lecture,
                                         p.subject, p.topic, p.category, input_format_opt)
                     out == format_output(p.question, p.choices, target_format_opt)
                 IN  IF inp.status = "raised" THEN inp
                     ELSE IF out.status = "raised" THEN out
                     ELSE Return([inp |-> inp.value, out |-> out.value])
    IN  IF input_format_opt = 1 \/ input_format_opt = 3
        THEN IF pid \notin DOMAIN extracted_texts[split] THEN {Raise("KeyError")}
             ELSE {IF d.status = "raised" THEN d
                   ELSE Format(PyStr(d.value), PyList(extracted_texts[split][pid])) :
                      d \in process_desc(descriptions_pid, desc_sel_mode)}
        ELSE {Format(PyNone, PyNone)}

\* the loop of format_io_data over the pids not yet formatted
RECURSIVE FormatLoop(_, _, _)
FormatLoop(a, rest, acc) ==
    IF rest = <<>> THEN {Return(acc)}
    ELSE UNION {IF o.status = "raised" THEN {o}
                ELSE FormatLoop(a, Tail(rest),
                                [inputs |-> Append(acc.inputs, o.value.inp),
                                 targets |-> Append(acc.targets, o.value.out),
                                 pids |-> Append(acc.pids, Head(rest))]) :
                   o \in FormatRecord(a.problems, a.descriptions, a.extracted_texts,
                                      a.split, Head(rest), a.desc_sel_mode,
                                      a.input_format_opt, a.target_format_opt)}

\* the loop of a mutant of format_io_data: a pid that fails is skipped
RECURSIVE FormatLoopSkipping(_, _, _)
FormatLoopSkipping(a, rest, acc) ==
    IF rest = <<>> THEN {Return(acc)}
    ELSE UNION {IF o.status = "raised" THEN FormatLoopSkipping(a, Tail(rest), acc)
                ELSE FormatLoopSkipping(a, Tail(rest),
                                [inputs |-> Append(acc.inputs, o.value.inp),
                                 targets |-> Append(acc.targets, o.value.out),
                                 pids |-> Append(acc.pids, Head(rest))]) :
                   o \in FormatRecord(a.problems, a.descriptions, a.extracted_texts,
                                      a.split, Head(rest), a.desc_sel_mode,
                                      a.input_format_opt, a.target_format_opt)}

\* a mutant of format_io_data: a pid that fails is skipped
format_io_data_skipping(problems, pid_splits, descriptions, extracted_texts, split, desc_sel_mode, input_format_opt, target_format_opt) ==
    FormatLoopSkipping([problems |-> problems, descriptions |-> descriptions,
                        extracted_texts |-> extracted_texts, split |-> split,
                        desc_sel_mode |-> desc_sel_mode,
                        input_format_opt |-> input_format_opt,
                        target_format_opt |-> target_format_opt],
                       pid_splits[split],
                       [inputs |-> <<>>, targets |-> <<>>, pids |-> <<>>])

format_io_data(problems, pid_splits, descriptions, extracted_texts, split, desc_sel_mode, input_format_opt, target_format_opt) ==
    FormatLoop([problems |-> problems, descriptions |-> descriptions,
                extracted_texts |-> extracted_texts, split |-> split,
                desc_sel_mode |-> desc_sel_mode,
                input_format_opt |-> input_format_opt,
                target_format_opt |-> target_format_opt],
               pid_splits[split],
               [inputs |-> <<>>, targets |-> <<>>, pids |-> <<>>])

(***************************************************************************)
(* The source files the pipeline is run on.                                *)
(***************************************************************************)
UsableProblem ==
    [image |-> "image.png", hint |-> <<"hint", " ">>, lecture |-> <<"lecture">>,
     subject |-> <<"subject">>, topic |-> <<"topic">>, category |-> <<"category">>,
     question |-> <<"Q?">>, choices |-> << <<"a">>, <<"b", " ">> >>]
NoImageProblem == [UsableProblem EXCEPT !.image = JsonNull]
NoHintProblem == [UsableProblem EXCEPT !.hint = <<>>]
ProblemPool == {UsableProblem, NoImageProblem, NoHintProblem}

ProblemFiles == UNION {[D -> ProblemPool] : D \in SUBSET Pids}

Range(q) == {q[i] : i \in 1..Len(q)}

\* the three splits are disjoint and hold no pid twice
SplitFiles ==
    {sp \in [Splits -> SeqsUpTo(Pids, Cardinality(Pids))] :
        /\ \A s \in Splits : \A i, j \in 1..Len(sp[s]) : sp[s][i] = sp[s][j] => i = j
        /\ \A s, t \in Splits : s # t => Range(sp[s]) \cap Range(sp[t]) = {}}

AllDescriptions ==
    <<[pid |-> 1, generated_descriptions |-> <<"d1">>, ppls |-> 2],
      [pid |-> 1, generated_descriptions |-> <<"d2">>, ppls |-> 1],
      [pid |-> 2, generated_descriptions |-> <<"d3">>, ppls |-> 1]>>

\* the table holds candidates for the problems of D only
DescriptionFile(D) ==
    LET Described(row) == row.pid \in D
    IN  SelectSeq(AllDescriptions, Described)

ExtractedTextOf(pid) == IF pid = "1" THEN <<>> ELSE << <<"t1", " ">>, <<"t2">> >>

\* the texts of each split's pids, but of the pids of Missing
ExtractedTextFile(sp, Missing) ==
    [s \in Splits |-> [pid \in Range(sp[s]) \ Missing |-> ExtractedTextOf(pid)]]

PipelineInit ==
    /\ \E pr \in ProblemFiles, sp \in SplitFiles, D \in SUBSET {1, 2},
          Missing \in {{}, {"1"}, {"2"}} :
        files = [problems |-> pr, pid_splits |-> sp,
                 descriptions |-> DescriptionFile(D),
                 extracted_texts |-> ExtractedTextFile(sp, Missing)]
    /\ loaded = Idle
    /\ io = Idle
    /\ build = StableBuild
    /\ FormatterIdle
    /\ SelectorIdle
    /\ EncoderIdle

LoadAndFilterRawData ==
    /\ loaded = Idle
    /\ loaded' = load_and_filter_raw_data
    /\ UNCHANGED <<files, io, build, fvars, dvars, evars>>

\* one run formats one split under one configuration
FormatIOData ==
    /\ loaded # Idle
    /\ io = Idle
    /\ \E split \in Splits, desc_sel_mode \in DescSelModes,
          input_format_opt \in InputFormatOpts, target_format_opt \in TargetFormatOpts :
        \E r \in format_io_data(loaded.problems, loaded.pid_splits, loaded.descriptions,
                                loaded.extracted_texts, split, desc_sel_mode,
                                input_format_opt, target_format_opt) :
            io' = [status |-> "called", split |-> split,
                   desc_sel_mode |-> desc_sel_mode,
                   input_format_opt |-> input_format_opt,
                   target_format_opt |-> target_format_opt,
                   result |-> r]
    /\ UNCHANGED <<files, loaded, build, fvars, dvars, evars>>

Next == LoadAndFilterRawData \/ FormatIOData

Spec == PipelineInit /\ [][Next]_vars

(***************************************************************************)
(* C1, C2, C9: the loader's properties.                                    *)
(***************************************************************************)
Loaded == loaded.status = "returned"

RECURSIVE Only(_, _)
Only(ids, S) ==
    IF ids = <<>> THEN <<>>
    ELSE IF Head(ids) \in S THEN <<Head(ids)>> \o Only(Tail(ids), S)
    ELSE Only(Tail(ids), S)

\* C2: each returned split is the source's split restricted to the keys of
\* the returned problems, in the original order.
C2_SplitsRestrictedToProblems ==
    Loaded =>
        \A s \in Splits :
            /\ \A i \in 1..Len(loaded.pid_splits[s]) :
                  loaded.pid_splits[s][i] \in DOMAIN loaded.problems
            /\ loaded.pid_splits[s] = Only(files.pid_splits[s], DOMAIN loaded.problems)

\* C2 witness: a split of two ids, of which the first was dropped and the
\* second kept.
C2_Witness ==
    /\ Loaded
    /\ \E s \in Splits :
        /\ Len(files.pid_splits[s]) = 2
        /\ loaded.pid_splits[s] = <<files.pid_splits[s][2]>>

HasDescription(pid) ==
    \E i \in 1..Len(loaded.descriptions) : loaded.descriptions[i].pid = int(pid)

\* C9 as stated: every pid of a returned split has a row in the returned
\* descriptions and an entry in the returned extracted texts of that split,
\* and format_io_data with input_format_opt 1 or 3 and a supported
\* desc_sel_mode never fails.
C9_EveryPidHasDescriptionAndText ==
    /\ Loaded =>
          \A s \in Splits : \A i \in 1..Len(loaded.pid_splits[s]) :
              /\ HasDescription(loaded.pid_splits[s][i])
              /\ loaded.pid_splits[s][i] \in DOMAIN loaded.extracted_texts[s]
    /\ (/\ io.status = "called"
        /\ io.input_format_opt \in {1, 3}
        /\ io.desc_sel_mode \in {1, 2}) => io.result.status = "returned"

(***************************************************************************)
(* C3, C4, C10: the split formatter's properties.                          *)
(***************************************************************************)
Called == io.status = "called"

\* the outcomes of formatting the i-th pid of the split of the last call
OutcomesOf(i) ==
    FormatRecord(loaded.problems, loaded.descriptions, loaded.extracted_texts,
                 io.split, loaded.pid_splits[io.split][i], io.desc_sel_mode,
                 io.input_format_opt, io.target_format_opt)

\* C3: when format_io_data returns, pids is the split's id list, inputs and
\* targets are as long, and the i-th input and target are formatted from the
\* i-th pid; when a pid fails, the call fails and returns nothing.
C3_ParallelSequences ==
    Called =>
        LET ids == loaded.pid_splits[io.split]
            r == io.result
        IN  /\ r.status = "returned" =>
                  /\ r.value.pids = ids
                  /\ Len(r.value.inputs) = Len(ids)
                  /\ Len(r.value.targets) = Len(ids)
                  /\ \A i \in 1..Len(ids) :
                        \E o \in OutcomesOf(i) :
                            /\ o.status = "returned"
                            /\ r.value.inputs[i] = o.value.inp
                            /\ r.value.targets[i] = o.value.out
            /\ (\E i \in 1..Len(ids) : \A o \in OutcomesOf(i) : o.status = "raised")
                  => /\ r.status = "raised"
                     /\ DOMAIN r = {"status", "error"}

\* C3 witness: a split of two pids was formatted with descriptions.
C3_Witness ==
    /\ Called
    /\ Len(loaded.pid_splits[io.split]) = 2
    /\ io.input_format_opt = 1
    /\ io.result.status = "returned"

\* C3, the failing case: the first pid of a split of two can be formatted and
\* the call failed on the second.
C3_WitnessFailure ==
    /\ Called
    /\ Len(loaded.pid_splits[io.split]) = 2
    /\ \E o \in OutcomesOf(1) : o.status = "returned"
    /\ io.result.status = "raised"

\* C4: a call of format_io_data with input_format_opt outside {1,2,3} or
\* desc_sel_mode outside {1,2} raises the configuration error, for every split
\* and every value of the other selectors.
C4_UnsupportedSelectorRaises ==
    (Called /\ (io.input_format_opt \notin {1, 2, 3} \/ io.desc_sel_mode \notin {1, 2}))
        => io.result = Raise("Exception")

\* C10: a call of format_io_data with target_format_opt outside {1,2} fails
\* only as the same call with target_format_opt 1 fails, and when it returns
\* its targets hold one None for each pid of the split.
C10_TargetFallsThrough ==
    (Called /\ io.target_format_opt \notin {1, 2}) =>
        LET ids == loaded.pid_splits[io.split]
            r == io.result
        IN  /\ r.status = "returned" =>
                  /\ Len(r.value.targets) = Len(ids)
                  /\ \A i \in 1..Len(ids) : r.value.targets[i] = PyNone
            /\ r.status = "raised" =>
                  r \in format_io_data(loaded.problems, loaded.pid_splits,
                                       loaded.descriptions, loaded.extracted_texts,
                                       io.split, io.desc_sel_mode, io.input_format_opt, 1)

\* C10 witness: a split of two pids was formatted with target_format_opt 3.
C10_Witness ==
    /\ Called
    /\ io.target_format_opt = 3
    /\ io.result.status = "returned"
    /\ Len(io.result.value.targets) = 2

(***************************************************************************)
(* The encoder.  The tokenizer is an external collaborator: tokenizer.src  *)
(* and tokenizer.tgt hold the token ids it makes of each input and each    *)
(* target string (a string may contain the pad token itself), and          *)
(* tokenizer.pad_token_id its pad id.  A matrix is a sequence of rows.     *)
(***************************************************************************)
max_source_length == 512
max_target_length == 128

Max(S) == CHOOSE m \in S : \A x \in S : x <= m
Min2(a, b) == IF a < b THEN a ELSE b

\* tokenizer(texts, padding='longest', max_length=max_length, truncation=True)
Tokenize(tokens, max_length) ==
    LET cut == [i \in 1..Len(tokens) |->
                   SubSeq(tokens[i], 1, Min2(Len(tokens[i]), max_length))]
        width == Max({Len(cut[i]) : i \in 1..Len(cut)})
    IN  [input_ids |->
            [i \in 1..Len(cut) |->
                [j \in 1..width |-> IF j <= Len(cut[i]) THEN cut[i][j]
                                    ELSE tokenizer.pad_token_id]],
         attention_mask |->
            [i \in 1..Len(cut) |->
                [j \in 1..width |-> IF j <= Len(cut[i]) THEN 1 ELSE 0]]]

\* labels[labels == tokenizer.pad_token_id] = -100, line 154
MaskPad(m) ==
    [i \in 1..Len(m) |->
        [j \in 1..Len(m[i]) |-> IF m[i][j] = tokenizer.pad_token_id THEN -100 ELSE m[i][j]]]

\* a mutant of get_transformer_encoding: the input ids are masked as well
get_transformer_encoding_masking_inputs ==
    LET inp_encoding == Tokenize(tokenizer.src, max_source_length)
        target_encoding == Tokenize(tokenizer.tgt, max_target_length)
    IN  [status |-> "returned",
         input_ids |-> MaskPad(inp_encoding.input_ids),
         attention_mask |-> inp_encoding.attention_mask,
         labels |-> MaskPad(target_encoding.input_ids)]

get_transformer_encoding ==
    LET inp_encoding == Tokenize(tokenizer.src, max_source_length)
        target_encoding == Tokenize(tokenizer.tgt, max_target_length)
    IN  [status |-> "returned",
         input_ids |-> inp_encoding.input_ids,
         attention_mask |-> inp_encoding.attention_mask,
         labels |-> MaskPad(target_encoding.input_ids)]

TokenIds == 0..2
PadTokenIds == {0, 1}
BatchSizes == {1, 2}
SourceTokens == {<<2>>, <<1, 0, 2>>}

EncoderInit ==
    /\ \E n \in BatchSizes :
        tokenizer \in [pad_token_id : PadTokenIds,
                       src : [1..n -> SourceTokens],
                       tgt : [1..n -> SeqsUpTo(TokenIds, MaxTokLen)]]
    /\ enc = Idle
    /\ build = StableBuild
    /\ FormatterIdle
    /\ SelectorIdle
    /\ PipelineIdle

GetTransformerEncoding ==
    /\ enc = Idle
    /\ enc' = get_transformer_encoding
    /\ UNCHANGED <<tokenizer, build, fvars, dvars, pvars>>

EncoderNext == GetTransformerEncoding

SpecEncoder == EncoderInit /\ [][EncoderNext]_vars

(***************************************************************************)
(* C8: the encoder's property.                                             *)
(***************************************************************************)
RawSource == Tokenize(tokenizer.src, max_source_length)
RawTarget == Tokenize(tokenizer.tgt, max_target_length)

\* C8: a label position holds -100 exactly when the tokenizer's raw target id
\* at that position equals the pad-token id, every other label position holds
\* the raw id, and the input ids and the attention mask are the tokenizer's.
C8_LabelMasking ==
    enc.status = "returned" =>
        /\ Len(enc.labels) = Len(RawTarget.input_ids)
        /\ \A i \in 1..Len(enc.labels) :
            /\ Len(enc.labels[i]) = Len(RawTarget.input_ids[i])
            /\ \A j \in 1..Len(enc.labels[i]) :
                /\ enc.labels[i][j] = -100
                      <=> RawTarget.input_ids[i][j] = tokenizer.pad_token_id
                /\ enc.labels[i][j] # -100
                      => enc.labels[i][j] = RawTarget.input_ids[i][j]
        /\ enc.input_ids = RawSource.input_ids
        /\ enc.attention_mask = RawSource.attention_mask

\* C8 witness: a batch of two targets of different lengths, so that one row is
\* padded, was encoded; the other row holds the pad id inside its text and a
\* token that is not the pad id, and the input ids hold the pad id too.
C8_Witness ==
    /\ enc.status = "returned"
    /\ Len(tokenizer.tgt) = 2
    /\ Len(tokenizer.tgt[1]) < Len(tokenizer.tgt[2])
    /\ \E j \in 1..Len(tokenizer.tgt[2]) : tokenizer.tgt[2][j] = tokenizer.pad_token_id
    /\ \E j \in 1..Len(tokenizer.tgt[2]) : tokenizer.tgt[2][j] # tokenizer.pad_token_id
    /\ \E i \in 1..2 : \E j \in 1..Len(enc.input_ids[i]) :
          enc.input_ids[i][j] = tokenizer.pad_token_id

(***************************************************************************)
(* The formatter on its own: format_input and format_output applied to     *)
(* one record's fields, then to the same fields with whitespace added      *)
(* around one of them.                                                     *)
(***************************************************************************)
ChoicePool == {<<>>, <<"a">>}
ExtTextPool == {PyNone, PyList(<<>>), PyList(<< <<"t1">> >>),
                PyList(<< <<"t1">>, <<"t2", " ", "t3">> >>)}
HintPool == {<<>>, <<"hint", "\n", "text">>}

FormatterArgs ==
    [desc : {PyStr(<<"a", " ", "caption">>)},
     ext_text : ExtTextPool,
     hint : HintPool,
     lecture : {<<"lecture">>},
     subject : {<<"subject">>},
     topic : {<<"topic">>},
     category : {<<"category">>},
     input_format_opt : InputFormatOpts,
     question : {<<"Q?">>},
     choices : SeqsUpTo(ChoicePool, MaxChoices),
     target_format_opt : TargetFormatOpts]

CallFormatter(a) ==
    [inp |-> format_input(a.desc, a.ext_text, a.hint, a.lecture, a.subject, a.topic,
                          a.category, a.input_format_opt),
     out |-> format_output(a.question, a.choices, a.target_format_opt),
     status |-> "called"]

\* runs of at most MaxPad spaces
Pads == SeqsUpTo({" "}, MaxPad)

\* the fields of a call that hold a string
ScalarFields == {"desc", "hint", "subject", "topic", "category", "question"}

FormatterInit ==
    /\ fargs \in FormatterArgs
    /\ fout = Idle
    /\ fbefore = Idle
    /\ fpadded = "none"
    /\ build = StableBuild
    /\ SelectorIdle
    /\ EncoderIdle
    /\ PipelineIdle

FormatCall ==
    /\ fout = Idle
    /\ fout' = CallFormatter(fargs)
    /\ UNCHANGED <<fargs, fbefore, fpadded, build, dvars, evars, pvars>>

\* the caller adds whitespace around one string field and formats again
PadScalar ==
    /\ fout # Idle /\ fpadded = "none"
    /\ \E f \in ScalarFields \ {"desc"}, l \in Pads, r \in Pads :
        /\ l \o r # <<>>
        /\ fargs' = [fargs EXCEPT ![f] = l \o @ \o r]
        /\ fpadded' = f
    /\ fbefore' = fout
    /\ fout' = Idle
    /\ UNCHANGED <<build, dvars, evars, pvars>>

PadDesc ==
    /\ fout # Idle /\ fpadded = "none"
    /\ fargs.desc.type = "str"
    /\ \E l \in Pads, r \in Pads :
        /\ l \o r # <<>>
        /\ fargs' = [fargs EXCEPT !.desc = PyStr(l \o @.val \o r)]
    /\ fpadded' = "desc"
    /\ fbefore' = fout
    /\ fout' = Idle
    /\ UNCHANGED <<build, dvars, evars, pvars>>

PadChoice ==
    /\ fout # Idle /\ fpadded = "none"
    /\ \E i \in 1..Len(fargs.choices), l \in Pads, r \in Pads :
        /\ l \o r # <<>>
        /\ fargs' = [fargs EXCEPT !.choices[i] = l \o @ \o r]
    /\ fpadded' = "choice"
    /\ fbefore' = fout
    /\ fout' = Idle
    /\ UNCHANGED <<build, dvars, evars, pvars>>

PadExtText ==
    /\ fout # Idle /\ fpadded = "none"
    /\ fargs.ext_text.type = "list"
    /\ \E i \in 1..Len(fargs.ext_text.val), l \in Pads, r \in Pads :
        /\ l \o r # <<>>
        /\ fargs' = [fargs EXCEPT !.ext_text.val[i] = l \o @ \o r]
    /\ fpadded' = "ext_text"
    /\ fbefore' = fout
    /\ fout' = Idle
    /\ UNCHANGED <<build, dvars, evars, pvars>>

FormatterNext == FormatCall \/ PadScalar \/ PadDesc \/ PadChoice \/ PadExtText

SpecFormatter == FormatterInit /\ [][FormatterNext]_vars

(***************************************************************************)
(* C6, C7: the formatter's properties.                                     *)
(***************************************************************************)
FormatterCalled == fout.status = "called"

\* "(n) c" for the n-th choice c, as the claim writes it
NumberedLine(n, c) == <<"(">> \o Decimal(n) \o <<")", " ">> \o c

\* the lines n, n+1, ... of a choice list, each followed by a newline but the last
RECURSIVE NumberedLines(_, _)
NumberedLines(n, cs) ==
    IF cs = <<>> THEN <<>>
    ELSE IF Len(cs) = 1 THEN NumberedLine(n, cs[1])
    ELSE NumberedLine(n, cs[1]) \o <<"\n">> \o NumberedLines(n + 1, Tail(cs))

QuestionHeader(q) == <<"Question:", "\n">> \o q \o <<"\n", "\n", "Choices:", "\n">>

\* C6 as stated: format_output with target_format_opt 1 returns the question
\* verbatim, and with 2 the header followed by the choices as given, numbered
\* from 1 and joined by newlines, for every choice list.
C6_ChoicesAsGiven ==
    FormatterCalled =>
        /\ fargs.target_format_opt = 1 => fout.out = Return(PyStr(fargs.question))
        /\ fargs.target_format_opt = 2 =>
              fout.out = Return(PyStr(QuestionHeader(fargs.question)
                                      \o NumberedLines(1, fargs.choices)))

\* C6 amended: with target_format_opt 2 each choice is trimmed of surrounding
\* whitespace before it is numbered, and whitespace at the end of the whole
\* list is removed (an empty or blank last choice is rendered "(n)").
C6_ChoicesTrimmed ==
    FormatterCalled =>
        /\ fargs.target_format_opt = 1 => fout.out = Return(PyStr(fargs.question))
        /\ fargs.target_format_opt = 2 =>
              fout.out = Return(PyStr(QuestionHeader(fargs.question)
                  \o rstrip(NumberedLines(1, [i \in 1..Len(fargs.choices) |->
                                                  strip(fargs.choices[i])]))))

\* C6 witness: two choices, one of them padded with whitespace, rendered with
\* target_format_opt 2.
C6_Witness ==
    /\ FormatterCalled
    /\ fargs.target_format_opt = 2
    /\ fpadded = "choice"
    /\ Len(fargs.choices) = 2
    /\ fargs.choices[1] # <<>>

\* C7 as stated: whitespace added around any one string field never changes
\* the produced input or target string.
C7_EveryFieldTrimmed ==
    (FormatterCalled /\ fpadded # "none") =>
        (fout.inp = fbefore.inp /\ fout.out = fbefore.out)

\* C7 amended: whitespace added around the hint, a choice or an
\* extracted-text element never changes the produced input or target string
\* (the description, subject, topic, category and question are interpolated
\* as they are).
C7_HintChoicesExtTextTrimmed ==
    (FormatterCalled /\ fpadded \in {"hint", "choice", "ext_text"}) =>
        (fout.inp = fbefore.inp /\ fout.out = fbefore.out)

\* C7 witness: a non-empty hint was padded and interpolated again with
\* input_format_opt 1.
C7_Witness ==
    /\ FormatterCalled
    /\ fpadded = "hint"
    /\ fargs.input_format_opt = 1
    /\ strip(fargs.hint) # <<>>
    /\ fout.inp.status = "returned"

====
